---- MODULE Spec2Model ----
(***************************************************************************)
(* Session and request-dispatch core of td/client.py (class TDClient):     *)
(* token state, persisted state file, silent SSO, token commit and         *)
(* _make_request.  Time is counted in ticks of 1/TicksPerSec second; the   *)
(* caller lets TickStep ticks pass between two calls.                      *)
(***************************************************************************)
EXTENDS Integers, Sequences, FiniteSets, TLC

VARIABLES state, config, file, authstate, now, issued, commits, last,
          credentials_path, threads, item

vars == <<state, config, file, authstate, now, issued, commits, last,
          credentials_path, threads, item>>

\* ------------------------------------------------------------------ bounds
TicksPerSec == 2
TickStep == 5
MaxTime == 25
MaxTok == 2
\* expires_in and refresh_token_expires_in of the server's token responses
AccessLifetime == 8
RefreshLifetime == 11

\* ------------------------------------------------------- program constants
\* default of _token_validation(nseconds)
NSeconds == 5

\* no WatchlistItem object has been made
NoItem == [exists |-> FALSE, query_parameters |-> << >>]

\* the caller's threads that are inside a call; none when calls are made one
\* after the other
NoThreads == << >>

\* None of a token field (falsy); tokens issued by the server are 1, 2, ...
NoToken == 0
\* None of a string field
NoneStr == "None"

TokenEndpoint == "oauth2/token"
AuthUrl == "https://auth.tdameritrade.com/auth/?response_type=code&redirect_uri=R&client_id=C%40AMER.OAUTHAP"

\* self.config as set by __init__
DefaultConfig == [cache_state |-> TRUE, refresh_enabled |-> TRUE]

\* self.state as set by __init__
DefaultState ==
  [access_token |-> NoToken,
   refresh_token |-> NoToken,
   access_token_expires_at |-> 0,
   refresh_token_expires_at |-> 0,
   authorization_url |-> NoneStr,
   redirect_code |-> NoneStr,
   loggedin |-> FALSE]

\* the state file: absent, or a JSON object
NoFile == [exists |-> FALSE, content |-> DefaultState]

\* ------------------------------------------------------------ environment
\* What the user pastes at the prompt of login()
Redirects == {"https://localhost/?code=c1"}

\* urllib.parse.parse_qs(url): the values of the query pairs, in key order
ParseQsValues(url) ==
  CASE url = "https://localhost/?code=c1" -> << <<"c1">> >>
    [] OTHER -> << >>

\* A response of the HTTP transport: status, Location header, Content-Type
\* header and body ("token": the four token fields, "error": a JSON object
\* without access_token, "data": any other JSON).
NoLocation == "absent"
TokenResponses ==
  { [status |-> 200, location |-> NoLocation, ctype |-> "application/json", body |-> "token"],
    [status |-> 200, location |-> NoLocation, ctype |-> "application/json", body |-> "error"],
    [status |-> 400, location |-> NoLocation, ctype |-> "application/json", body |-> "error"] }

BusinessResponses ==
  { [status |-> 200, location |-> NoLocation, ctype |-> "application/json", body |-> "data"],
    [status |-> 201, location |-> "https://api.tdameritrade.com/v1/accounts/ACCT123/orders/555",
       ctype |-> "absent", body |-> "data"],
    [status |-> 401, location |-> NoLocation, ctype |-> "application/json", body |-> "error"] }

NoResponse == [status |-> 0, location |-> NoLocation, ctype |-> "absent", body |-> "none"]

\* str.split('orders/') of a Location header
SplitOrders(loc) ==
  CASE loc = "https://api.tdameritrade.com/v1/accounts/ACCT123/orders/555"
         -> <<"https://api.tdameritrade.com/v1/accounts/ACCT123/", "555">>
    [] OTHER -> <<loc>>

\* the wrappers' calls of _make_request: method, mode, order_details
Calls ==
  { [method |-> "get", mode |-> NoneStr, order_details |-> FALSE],
    [method |-> "delete", mode |-> NoneStr, order_details |-> TRUE] }

\* values returned by the methods
RetNone == [kind |-> "None", body |-> "none", tok |-> NoToken, order_id |-> ""]
RetTrue == [kind |-> "True", body |-> "none", tok |-> NoToken, order_id |-> ""]
RetFalse == [kind |-> "False", body |-> "none", tok |-> NoToken, order_id |-> ""]

NoSso == [called |-> FALSE, ret |-> "none", requests |-> 0]

\* The world a call runs in: the session's state, the file, the clock, the
\* tokens the server has issued (issued[k] is when refresh token k expires),
\* the requests sent so far, the responses the transport will give (net),
\* whether the server can give them (possible), the exception in flight (exc),
\* the value returned by the last completed call (ret), how often the call
\* has read the state file into the session state (loads) and the path of the
\* state file the session was given (credentials_path, None for the default).
World(net) ==
  [state |-> state, file |-> file, now |-> now, issued |-> issued,
   commits |-> commits, sent |-> << >>, net |-> net, possible |-> TRUE, exc |-> "none",
   ret |-> RetNone, authstate |-> authstate, commit |-> "none", sso |-> NoSso,
   loads |-> 0, credentials_path |-> credentials_path]

Raise(w, e) == [w EXCEPT !.exc = e, !.ret = RetNone]
Return(w, r) == [w EXCEPT !.ret = r]

\* ------------------------------------------------------------- TDClient
\* int(x) of a duration of d ticks, in seconds: truncation toward zero
IntSeconds(d) ==
  IF d >= 0 THEN d \div TicksPerSec ELSE 0 - ((0 - d) \div TicksPerSec)

\* a _token_seconds that rounds the difference down instead of towards zero
TokenSecondsRead_Floor(st, t1, t2, token_type) ==
  IF token_type = "access_token"
  THEN IF st.access_token = NoToken \/ t1 >= st.access_token_expires_at
       THEN 0
       ELSE (st.access_token_expires_at - t2) \div TicksPerSec
  ELSE IF st.refresh_token = NoToken \/ t1 >= st.refresh_token_expires_at
       THEN 0
       ELSE (st.refresh_token_expires_at - t2) \div TicksPerSec

\* _token_seconds(token_type): time.time() is read twice, at t1 for the
\* comparison with the expiry and at t2 >= t1 for the difference
TokenSecondsRead(st, t1, t2, token_type) ==
  IF token_type = "access_token"
  THEN IF st.access_token = NoToken \/ t1 >= st.access_token_expires_at
       THEN 0
       ELSE IntSeconds(st.access_token_expires_at - t2)
  ELSE IF st.refresh_token = NoToken \/ t1 >= st.refresh_token_expires_at
       THEN 0
       ELSE IntSeconds(st.refresh_token_expires_at - t2)

\* _token_seconds(token_type) when both reads of the clock give t
TokenSeconds(st, t, token_type) == TokenSecondsRead(st, t, t, token_type)

\* headers that carry the JSON content type whatever the mode
Headers_AlwaysJson(st, mode) ==
  [has_auth |-> TRUE,
   auth |-> st.access_token,
   expires_at |-> st.access_token_expires_at,
   content_type |-> "application/json"]

\* _headers(mode): Authorization is 'Bearer <state.access_token>'; expires_at
\* remembers the expiry stored with that token when the header was built.
Headers(st, mode) ==
  [has_auth |-> TRUE,
   auth |-> st.access_token,
   expires_at |-> st.access_token_expires_at,
   content_type |-> CASE mode = "json" -> "application/json"
                      [] mode = "form" -> "application/x-www-form-urlencoded"
                      [] OTHER -> "absent"]

\* a dict.update that keeps the old values
Update_KeepOld(st, f) ==
  [k \in (DOMAIN st) \cup (DOMAIN f) |-> IF k \in DOMAIN st THEN st[k] ELSE f[k]]

\* dict.update: the keys of f override those of st
Update(st, f) ==
  [k \in (DOMAIN st) \cup (DOMAIN f) |-> IF k \in DOMAIN f THEN f[k] ELSE st[k]]

\* a state manager whose 'init' never reads the state file
StateManager_NoLoad(w, cfg, action) ==
  CASE action = "init" /\ ~cfg.cache_state /\ w.file.exists
         -> [w EXCEPT !.file = NoFile]
    [] action = "save" /\ cfg.cache_state
         -> [w EXCEPT !.file = [exists |-> TRUE, content |-> w.state]]
    [] OTHER -> w

\* a state manager whose 'save' creates the file but removes one that is
\* already there
StateManager_SaveOnce(w, cfg, action) ==
  CASE action = "init" /\ cfg.cache_state /\ w.file.exists
         -> [w EXCEPT !.state = Update(w.state, w.file.content), !.loads = @ + 1]
    [] action = "init" /\ ~cfg.cache_state /\ w.file.exists
         -> [w EXCEPT !.file = NoFile]
    [] action = "save" /\ cfg.cache_state /\ ~w.file.exists
         -> [w EXCEPT !.file = [exists |-> TRUE, content |-> w.state]]
    [] action = "save" /\ cfg.cache_state /\ w.file.exists
         -> [w EXCEPT !.file = NoFile]
    [] OTHER -> w

\* a state manager whose 'save' writes the file whatever cache_state says
StateManager_SaveAlways(w, cfg, action) ==
  CASE action = "init" /\ cfg.cache_state /\ w.file.exists
         -> [w EXCEPT !.state = Update(w.state, w.file.content), !.loads = @ + 1]
    [] action = "init" /\ ~cfg.cache_state /\ w.file.exists
         -> [w EXCEPT !.file = NoFile]
    [] action = "save"
         -> [w EXCEPT !.file = [exists |-> TRUE, content |-> w.state]]
    [] OTHER -> w

\* a state manager whose 'init' raises when the supplied path has no file
StateManager_RaiseOnMissing(w, cfg, action) ==
  CASE action = "init" /\ cfg.cache_state /\ w.file.exists
         -> [w EXCEPT !.state = Update(w.state, w.file.content), !.loads = @ + 1]
    [] action = "init" /\ ~cfg.cache_state /\ w.file.exists
         -> [w EXCEPT !.file = NoFile]
    [] action = "init" /\ cfg.cache_state /\ ~w.file.exists
         -> IF w.credentials_path # NoneStr THEN Raise(w, "FileNotFoundError") ELSE w
    [] action = "save" /\ cfg.cache_state
         -> [w EXCEPT !.file = [exists |-> TRUE, content |-> w.state]]
    [] OTHER -> w

\* _state_manager(action); w.file is the file at the session's path, the one
\* given as credentials_path or the default one
StateManager(w, cfg, action) ==
  CASE action = "init" /\ cfg.cache_state /\ w.file.exists
         -> [w EXCEPT !.state = Update(w.state, w.file.content), !.loads = @ + 1]
    [] action = "init" /\ ~cfg.cache_state /\ w.file.exists
         -> [w EXCEPT !.file = NoFile]
    [] action = "init" /\ cfg.cache_state /\ ~w.file.exists
         -> w
    [] action = "save" /\ cfg.cache_state
         -> [w EXCEPT !.file = [exists |-> TRUE, content |-> w.state]]
    [] OTHER -> w

\* logout()
Logout(w, cfg) == Return(StateManager(w, cfg, "init"), RetNone)

\* (mutant) a commit that forgets to set loggedin
TokenSave_NoLogin(w, cfg, token_dict) ==
  IF token_dict.kind = "None"
  THEN Raise(w, "TypeError")
  ELSE IF token_dict.body # "token"
  THEN [Return(StateManager(w, cfg, "init"), RetFalse) EXCEPT !.commit = "False"]
  ELSE [w EXCEPT !.state = [w.state EXCEPT
                    !.access_token = token_dict.tok,
                    !.refresh_token = token_dict.tok,
                    !.access_token_expires_at = w.now + AccessLifetime * TicksPerSec,
                    !.refresh_token_expires_at = w.now + RefreshLifetime * TicksPerSec],
                 !.commits = @ \cup {token_dict.tok},
                 !.ret = RetTrue, !.commit = "True"]

\* a commit that takes the refresh token's lifetime for the access token
TokenSave_RefreshLifetimeForAccess(w, cfg, token_dict) ==
  IF token_dict.kind = "None"
  THEN Raise(w, "TypeError")
  ELSE IF token_dict.body # "token"
  THEN LET w1 == Logout(w, cfg)
       IN  [w1 EXCEPT !.ret = RetFalse, !.commit = "False"]
  ELSE [w EXCEPT !.state = [w.state EXCEPT
                    !.access_token = token_dict.tok,
                    !.refresh_token = token_dict.tok,
                    !.access_token_expires_at = w.now + RefreshLifetime * TicksPerSec,
                    !.refresh_token_expires_at = w.now + RefreshLifetime * TicksPerSec,
                    !.loggedin = TRUE],
                 !.commits = @ \cup {token_dict.tok},
                 !.ret = RetTrue, !.commit = "True"]

\* a commit that stores the new access token and keeps the refresh token
\* held before
TokenSave_AccessOnly(w, cfg, token_dict) ==
  IF token_dict.kind = "None"
  THEN Raise(w, "TypeError")
  ELSE IF token_dict.body # "token"
  THEN LET w1 == Logout(w, cfg)
       IN  [w1 EXCEPT !.ret = RetFalse, !.commit = "False"]
  ELSE LET st == [w.state EXCEPT
                    !.access_token = token_dict.tok,
                    !.access_token_expires_at = w.now + AccessLifetime * TicksPerSec,
                    !.refresh_token_expires_at = w.now + RefreshLifetime * TicksPerSec,
                    !.loggedin = TRUE]
       IN  [w EXCEPT !.state = st, !.commits = @ \cup {token_dict.tok},
                     !.ret = RetTrue, !.commit = "True"]

\* _token_save(token_dict); its return value is kept in commit
TokenSave(w, cfg, token_dict) ==
  IF token_dict.kind = "None"
  THEN Raise(w, "TypeError")
  ELSE IF token_dict.body # "token"
  THEN LET w1 == Logout(w, cfg)
       IN  [w1 EXCEPT !.ret = RetFalse, !.commit = "False"]
  ELSE LET st == [w.state EXCEPT
                    !.access_token = token_dict.tok,
                    !.refresh_token = token_dict.tok,
                    !.access_token_expires_at = w.now + AccessLifetime * TicksPerSec,
                    !.refresh_token_expires_at = w.now + RefreshLifetime * TicksPerSec,
                    !.loggedin = TRUE]
       IN  [w EXCEPT !.state = st, !.commits = @ \cup {token_dict.tok},
                     !.ret = RetTrue, !.commit = "True"]

NoData == [grant_type |-> "none", refresh_token |-> NoToken, code |-> ""]

\* The server issues tokens for an authorization code, and for a refresh token
\* that it issued and that has not expired.
GrantIsValid(w, data) ==
  \/ data.grant_type = "authorization_code"
  \/ /\ data.grant_type = "refresh_token"
     /\ data.refresh_token \in 1..Len(w.issued)
     /\ w.now < w.issued[data.refresh_token]

\* _make_request from "Handle the request" on: the HTTP call with the headers
\* built so far, then the classification of the response
Perform(w, headers, method, endpoint, data, order_details) ==
  LET response == IF endpoint = TokenEndpoint THEN w.net.token ELSE w.net.business
      request == [endpoint |-> endpoint, method |-> method, headers |-> headers,
                  data |-> data,
                  held |-> w.state.access_token,
                  held_seconds |-> TokenSeconds(w.state, w.now, "access_token"),
                  auth_seconds |-> TokenSeconds(
                     [w.state EXCEPT !.access_token = headers.auth,
                                     !.access_token_expires_at = headers.expires_at],
                     w.now, "access_token")]
      minted == response.body = "token" /\ response.status \in {200, 201}
      w2 == [w EXCEPT !.sent = Append(@, request),
                      !.possible = @ /\ (minted => GrantIsValid(w, data)),
                      !.issued = IF minted
                                 THEN Append(@, w.now + RefreshLifetime * TicksPerSec)
                                 ELSE @]
      parts == SplitOrders(response.location)
      order_id == IF response.location # NoLocation THEN parts[2] ELSE ""
  IN  IF response.location # NoLocation /\ Len(parts) < 2 THEN Raise(w2, "IndexError")
      ELSE IF response.status \in {200, 201}
      THEN IF order_details
           THEN Return(w2, [kind |-> "order", body |-> response.body, tok |-> NoToken,
                            order_id |-> order_id])
           ELSE IF response.ctype = "absent" THEN Raise(w2, "KeyError")
           ELSE IF response.ctype \in {"application/json;charset=UTF-8", "application/json"}
           THEN Return(w2, [kind |-> "json", body |-> response.body,
                            tok |-> IF minted THEN Len(w2.issued) ELSE NoToken,
                            order_id |-> ""])
           ELSE Return(w2, RetNone)
      ELSE Return(w2, RetNone)

\* _make_request on the token endpoint: no token validation, and the
\* Authorization header is deleted
TokenRequest(w, method, mode, data) ==
  Perform(w, [Headers(w.state, mode) EXCEPT !.has_auth = FALSE], method, TokenEndpoint,
          data, FALSE)

\* grab_refresh_token()
GrabRefreshToken(w, cfg) ==
  LET data == [grant_type |-> "refresh_token", refresh_token |-> w.state.refresh_token,
               code |-> ""]
      w1 == TokenRequest(w, "post", "form", data)
      w2 == TokenSave(w1, cfg, w1.ret)
  IN  IF w1.exc # "none" THEN w1
      ELSE IF w2.exc # "none" THEN w2
      ELSE Return(StateManager(w2, cfg, "save"), RetTrue)

\* a validation that also refreshes a token with exactly nseconds left
TokenValidation_OffByOne(w, cfg, nseconds) ==
  IF TokenSeconds(w.state, w.now, "access_token") <= nseconds /\ cfg.refresh_enabled
  THEN LET w1 == GrabRefreshToken(w, cfg)
       IN  IF w1.exc # "none" THEN w1 ELSE Return(w1, RetNone)
  ELSE Return(w, RetNone)

\* _token_validation(nseconds)
TokenValidation(w, cfg, nseconds) ==
  IF TokenSeconds(w.state, w.now, "access_token") < nseconds /\ cfg.refresh_enabled
  THEN LET w1 == GrabRefreshToken(w, cfg)
       IN  IF w1.exc # "none" THEN w1 ELSE Return(w1, RetNone)
  ELSE Return(w, RetNone)

\* _make_request(method, endpoint, mode, data, order_details) on a business
\* endpoint: the headers are built first, then the token is validated
MakeRequest(w, cfg, method, endpoint, mode, data, order_details) ==
  LET headers == Headers(w.state, mode)
      w1 == TokenValidation(w, cfg, NSeconds)
  IN  IF w1.exc # "none" THEN w1
      ELSE Perform(w1, headers, method, endpoint, data, order_details)

\* grab_access_token()
GrabAccessToken(w, cfg) ==
  LET url_dict == ParseQsValues(w.state.redirect_code)
      data == [grant_type |-> "authorization_code", refresh_token |-> NoToken,
               code |-> url_dict[1][1]]
      w1 == TokenRequest(w, "post", "form", data)
      w2 == TokenSave(w1, cfg, w1.ret)
  IN  IF Len(url_dict) = 0 THEN Raise(w, "IndexError")
      ELSE IF w1.exc # "none" THEN w1
      ELSE IF w2.exc # "none" THEN w2
      ELSE Return(StateManager(w2, cfg, "save"), RetTrue)

\* (mutant) silent SSO that refreshes although the access token is still usable
SilentSso_Eager(w, cfg) ==
  LET seen == [called |-> TRUE, ret |-> "none", requests |-> 0]
      w1 == GrabRefreshToken(w, cfg)
  IN  IF TokenSeconds(w.state, w.now, "refresh_token") <= 0
      THEN [w EXCEPT !.ret = RetFalse, !.sso = [seen EXCEPT !.ret = "False"]]
      ELSE IF w1.exc # "none"
      THEN [w1 EXCEPT !.sso = [seen EXCEPT !.ret = "raised",
                                           !.requests = Len(w1.sent) - Len(w.sent)]]
      ELSE [w1 EXCEPT !.ret = RetTrue,
                      !.sso = [seen EXCEPT !.ret = "True",
                                           !.requests = Len(w1.sent) - Len(w.sent)]]

\* (mutant) silent SSO that skips the expiry check of the refresh token
SilentSso_NoExpiryCheck(w, cfg) ==
  LET seen == [called |-> TRUE, ret |-> "none", requests |-> 0]
      w1 == GrabRefreshToken(w, cfg)
  IN  IF TokenSeconds(w.state, w.now, "access_token") > 0
      THEN [w EXCEPT !.ret = RetTrue, !.sso = [seen EXCEPT !.ret = "True"]]
      ELSE IF w.state.refresh_token = NoToken
      THEN [w EXCEPT !.ret = RetFalse, !.sso = [seen EXCEPT !.ret = "False"]]
      ELSE IF w1.exc # "none"
      THEN [w1 EXCEPT !.sso = [seen EXCEPT !.ret = "raised",
                                           !.requests = Len(w1.sent) - Len(w.sent)]]
      ELSE [w1 EXCEPT !.ret = RetTrue,
                      !.sso = [seen EXCEPT !.ret = "True",
                                           !.requests = Len(w1.sent) - Len(w.sent)]]

\* _silent_sso(); sso keeps what the call saw and what it returned
SilentSso(w, cfg) ==
  LET asecs == TokenSeconds(w.state, w.now, "access_token")
      rsecs == TokenSeconds(w.state, w.now, "refresh_token")
      seen == [called |-> TRUE, ret |-> "none", requests |-> 0]
      Done(x, r) == [x EXCEPT !.ret = r,
                              !.sso = [seen EXCEPT !.ret = r.kind,
                                                   !.requests = Len(x.sent) - Len(w.sent)]]
      w1 == GrabRefreshToken(w, cfg)
  IN  IF asecs > 0 THEN Done(w, RetTrue)
      ELSE IF rsecs <= 0 THEN Done(w, RetFalse)
      ELSE IF w.state.refresh_token # NoToken
      THEN IF w1.exc # "none"
           THEN [w1 EXCEPT !.sso = [seen EXCEPT !.ret = "raised",
                                                !.requests = Len(w1.sent) - Len(w.sent)]]
           ELSE IF w1.ret.kind = "True" THEN Done(w1, RetTrue) ELSE Done(w1, RetFalse)
      ELSE Done(w, RetFalse)

\* login(); my_response is what input() returns
Login(w, cfg, my_response) ==
  LET w0 == IF cfg.cache_state THEN SilentSso(w, cfg) ELSE Return(w, RetFalse)
      w1 == [w0 EXCEPT !.state.authorization_url = AuthUrl,
                       !.state.redirect_code = my_response]
      w2 == GrabAccessToken(w1, cfg)
  IN  IF w0.exc # "none" THEN w0
      ELSE IF cfg.cache_state /\ w0.ret.kind = "True"
      THEN [w0 EXCEPT !.authstate = "Authenticated", !.ret = RetTrue]
      ELSE IF w2.exc # "none" THEN w2
      ELSE [w2 EXCEPT !.authstate = "Authenticated", !.ret = RetTrue]

\* ------------------------------------------------------------ the machine
\* what the last operation was, what it saw and what it did
NoCall == [method |-> "none", mode |-> NoneStr, order_details |-> FALSE]

Record(op, call, w) ==
  [op |-> op, call |-> call, ret |-> w.ret, exc |-> w.exc, sent |-> w.sent,
   commit |-> w.commit, sso |-> w.sso, loads |-> w.loads,
   response |-> IF \E i \in 1..Len(w.sent) : w.sent[i].endpoint # TokenEndpoint
                THEN w.net.business ELSE NoResponse]

\* what the transport answers to the call's requests
Replies == [token : TokenResponses, business : BusinessResponses]
TokenReplies == [token : TokenResponses, business : {NoResponse}]
NoReplies == [token |-> NoResponse, business |-> NoResponse]

\* no call has returned since the last step
Idle(op) ==
  [op |-> op, call |-> NoCall, ret |-> RetNone, exc |-> "none",
   sent |-> << >>, commit |-> "none", sso |-> NoSso, loads |-> 0,
   response |-> NoResponse]

\* the effects of a call that ended in world w
Commit(op, call, w) ==
  /\ w.possible
  /\ Len(w.issued) <= MaxTok
  /\ state' = w.state
  /\ file' = w.file
  /\ now' = w.now
  /\ issued' = w.issued
  /\ commits' = w.commits
  /\ authstate' = w.authstate
  /\ last' = Record(op, call, w)
  /\ UNCHANGED <<config, credentials_path, threads, item>>

\* TDClient(...): __init__ of a new session on the same state file
Construct ==
  LET w0 == [World(NoReplies) EXCEPT !.state = DefaultState,
                                                       !.authstate = "False"]
      w == StateManager(w0, DefaultConfig, "init")
  IN  /\ state' = w.state
      /\ file' = w.file
      /\ config' = DefaultConfig
      /\ authstate' = "False"
      /\ last' = [Idle("init") EXCEPT !.exc = w.exc, !.loads = w.loads]
      /\ UNCHANGED <<now, issued, commits, credentials_path, threads, item>>

\* client.config[key] = value, set by the caller between calls
Configure ==
  \E c \in [cache_state : BOOLEAN, refresh_enabled : BOOLEAN] :
     /\ c # config
     /\ config' = c
     /\ last' = Idle("configure")
     /\ UNCHANGED <<state, file, authstate, now, issued, commits, credentials_path,
                    threads, item>>

\* time.time() moves on between calls
Tick ==
  /\ now + TickStep <= MaxTime
  /\ now' = now + TickStep
  /\ last' = Idle("tick")
  /\ UNCHANGED <<state, config, file, authstate, issued, commits, credentials_path,
                 threads, item>>

DoLogin ==
  \E n \in TokenReplies, r \in Redirects : Commit("login", NoCall, Login(World(n), config, r))

DoLogout ==
  Commit("logout", NoCall, Logout(World(NoReplies), config))

DoGrabAccessToken ==
  \E n \in TokenReplies :
     Commit("grab_access_token", NoCall, GrabAccessToken(World(n), config))

DoGrabRefreshToken ==
  \E n \in TokenReplies :
     Commit("grab_refresh_token", NoCall, GrabRefreshToken(World(n), config))

DoSilentSso ==
  \E n \in TokenReplies : Commit("silent_sso", NoCall, SilentSso(World(n), config))

\* ENDPOINT_ARGUMENTS: the allowed values of each validated parameter of
\* each endpoint, in the order of the table
EndpointArguments ==
  [search_instruments |->
     [projection |-> <<"symbol-search", "symbol-regex", "desc-search", "desc-regex",
                       "fundamental">>],
   get_market_hours |->
     [markets |-> <<"EQUITY", "OPTION", "FUTURE", "BOND", "FOREX">>],
   get_movers |->
     [market |-> <<"$DJI", "$COMPX", "$SPX.X">>,
      direction |-> <<"up", "down">>,
      change |-> <<"value", "percent">>],
   get_user_principals |->
     [fields |-> <<"streamerSubscriptionKeys", "streamerConnectionInfo", "preferences",
                   "surrogateIds">>]]

\* the characters of a str
Chars(v) ==
  CASE v = "up" -> <<"u", "p">>
    [] v = "value" -> <<"v", "a", "l", "u", "e">>
    [] v = "fundamental" -> <<"f", "u", "n", "d", "a", "m", "e", "n", "t", "a", "l">>
    [] v = "$DJI" -> <<"$", "D", "J", "I">>
    [] v = "EQUITY" -> <<"E", "Q", "U", "I", "T", "Y">>
    [] v = "CRYPTO" -> <<"C", "R", "Y", "P", "T", "O">>
    [] v = "preferences" -> <<"p", "r", "e", "f", "e", "r", "e", "n", "c", "e", "s">>

\* An argument of a validated parameter is a str or a list of str; items is
\* what iterating over it yields.
StrArg(v) == [isstr |-> TRUE, str |-> v, items |-> Chars(v)]
ListArg(vs) == [isstr |-> FALSE, str |-> "", items |-> vs]

\* the elements of a sequence
Elements(seq) == {seq[i] : i \in 1..Len(seq)}

\* a validation that does not wrap a str in a list
ValidateArguments_NoNormalise(endpoint, parameter_name, parameter_argument) ==
  LET arguments == EndpointArguments[endpoint][parameter_name]
      values == parameter_argument.items
      validation_result == [i \in 1..Len(values) |-> values[i] \in Elements(arguments)]
  IN  IF FALSE \in Elements(validation_result)
      THEN [exc |-> "ValueError", message |-> arguments, ret |-> "none"]
      ELSE [exc |-> "none", message |-> << >>, ret |-> "True"]

\* a validation that accepts everything
ValidateArguments_Accept(endpoint, parameter_name, parameter_argument) ==
  [exc |-> "none", message |-> << >>, ret |-> "True"]

\* _validate_arguments(endpoint, parameter_name, parameter_argument): a str
\* becomes a one-element list; message is what the ValueError's text is
\* formatted with, ' ,'.join(arguments)
ValidateArguments(endpoint, parameter_name, parameter_argument) ==
  LET arguments == EndpointArguments[endpoint][parameter_name]
      values == IF parameter_argument.isstr
                THEN <<parameter_argument.str>>
                ELSE parameter_argument.items
      validation_result == [i \in 1..Len(values) |-> values[i] \in Elements(arguments)]
  IN  IF FALSE \in Elements(validation_result)
      THEN [exc |-> "ValueError", message |-> arguments, ret |-> "none"]
      ELSE [exc |-> "none", message |-> << >>, ret |-> "True"]

\* the wrappers that validate their parameters: each validates, in the order
\* of its parameters, and then makes one get request
Validated(w, cfg, endpoint, names, arguments) ==
  LET results == [i \in 1..Len(names) |->
                    ValidateArguments(endpoint, names[i], arguments[names[i]])]
      failed == {i \in 1..Len(names) : results[i].exc # "none"}
  IN  IF failed # {}
      THEN Raise(w, results[CHOOSE i \in failed : \A k \in failed : i <= k].exc)
      ELSE MakeRequest(w, cfg, "get", "business", NoneStr, NoData, FALSE)

\* search_instruments(symbol, projection)
SearchInstruments(w, cfg, arguments) ==
  Validated(w, cfg, "search_instruments", <<"projection">>, arguments)

\* get_market_hours(markets, date)
GetMarketHours(w, cfg, arguments) ==
  Validated(w, cfg, "get_market_hours", <<"markets">>, arguments)

\* get_movers(market, direction, change)
GetMovers(w, cfg, arguments) ==
  Validated(w, cfg, "get_movers", <<"market", "direction", "change">>, arguments)

\* get_user_principals(fields)
GetUserPrincipals(w, cfg, arguments) ==
  Validated(w, cfg, "get_user_principals", <<"fields">>, arguments)

\* _state_manager('save')
DoSave ==
  Commit("save", NoCall, Return(StateManager(World(NoReplies), config, "save"), RetNone))

\* an endpoint wrapper: one _make_request on a business endpoint
Dispatch ==
  \E n \in Replies, c \in Calls :
     Commit("dispatch", c,
            MakeRequest(World(n), config, c.method, "business", c.mode, NoData,
                        c.order_details))

Init ==
  /\ state = DefaultState
  /\ config = DefaultConfig
  /\ file = NoFile
  /\ authstate = "False"
  /\ now = 0
  /\ issued = << >>
  /\ commits = {}
  /\ last = Idle("init")
  /\ credentials_path = NoneStr
  /\ threads = NoThreads
  /\ item = NoItem

Next ==
  \/ Construct
  \/ Configure
  \/ Tick
  \/ DoLogin
  \/ DoLogout
  \/ DoGrabAccessToken
  \/ DoGrabRefreshToken
  \/ DoSilentSso
  \/ DoSave
  \/ Dispatch

Spec == Init /\ [][Next]_vars

\* ------------------------------------------------- construction on any file
\* The state files a session can find at its path: none, or a JSON object
\* with any part of the keys a session writes (a file written by hand or by
\* another version of the client).
SavedState ==
  [access_token |-> 1, refresh_token |-> 1,
   access_token_expires_at |-> AccessLifetime * TicksPerSec,
   refresh_token_expires_at |-> RefreshLifetime * TicksPerSec,
   authorization_url |-> AuthUrl,
   redirect_code |-> "https://localhost/?code=c1",
   loggedin |-> TRUE]

StateFiles ==
  {NoFile} \cup
  {[exists |-> TRUE, content |-> [k \in K |-> SavedState[k]]] :
     K \in SUBSET (DOMAIN SavedState)}

\* the credentials_path argument of the constructor
CredentialsPaths == {NoneStr, "td_credentials.json"}

\* the world __init__ runs in when the file at the session's path is f
FirstWorld(f, path) ==
  [state |-> DefaultState, file |-> f, now |-> 0, issued |-> << >>,
   commits |-> {}, sent |-> << >>, net |-> NoReplies, possible |-> TRUE,
   exc |-> "none", ret |-> RetNone, authstate |-> "False", commit |-> "none",
   sso |-> NoSso, loads |-> 0, credentials_path |-> path]

\* TDClient(..., credentials_path = path) on any state file
InitLoad ==
  \E f \in StateFiles, path \in CredentialsPaths :
    LET w == StateManager(FirstWorld(f, path), DefaultConfig, "init")
    IN  /\ state = w.state
        /\ config = DefaultConfig
        /\ file = w.file
        /\ authstate = "False"
        /\ now = 0
        /\ issued = << >>
        /\ commits = {}
        /\ last = [Idle("init") EXCEPT !.exc = w.exc, !.loads = w.loads]
        /\ credentials_path = path
        /\ threads = NoThreads
        /\ item = NoItem

NextLoad ==
  \/ Construct
  \/ Configure
  \/ DoLogout
  \/ DoSave

SpecLoad == InitLoad /\ [][NextLoad]_vars

\* ------------------------------------------------- _token_seconds on any state
\* the expiry times and clock values tried, in ticks
MaxExpiry == 6
\* the ticks that can pass between the two reads of the clock in one call
\* (two adjacent statements: at most a second)
MaxDrift == TicksPerSec

SecondsStates ==
  {[DefaultState EXCEPT !.access_token = a, !.access_token_expires_at = ea,
                        !.refresh_token = r, !.refresh_token_expires_at = er] :
     a \in {NoToken, 1}, r \in {NoToken, 1}, ea \in 0..MaxExpiry, er \in 0..MaxExpiry}

InitSeconds ==
  /\ state \in SecondsStates
  /\ now \in 0..(MaxExpiry + 1)
  /\ config = DefaultConfig
  /\ file = NoFile
  /\ authstate = "False"
  /\ issued = << >>
  /\ commits = {}
  /\ last = [op |-> "init"]
  /\ credentials_path = NoneStr
  /\ threads = NoThreads
  /\ item = NoItem

\* self._token_seconds(token_type)
DoTokenSeconds ==
  \E token_type \in {"access_token", "refresh_token"}, drift \in 0..MaxDrift :
    /\ last' = [op |-> "token_seconds", token_type |-> token_type,
                read_at |-> now + drift,
                ret |-> TokenSecondsRead(state, now, now + drift, token_type)]
    /\ UNCHANGED <<state, config, file, authstate, now, issued, commits,
                   credentials_path, threads, item>>

NextSeconds == DoTokenSeconds

SpecSeconds == InitSeconds /\ [][NextSeconds]_vars

\* ------------------------------------------ _make_request on any response
\* The responses a business endpoint can give: the statuses the code names,
\* one success and one client error it does not name; no Location header, an
\* order's Location and a Location of another resource; the JSON content
\* types, another content type and no Content-Type header.
AnyStatuses == {200, 201, 204, 400, 401, 403, 404, 415, 500}
AnyLocations ==
  {NoLocation, "https://api.tdameritrade.com/v1/accounts/ACCT123/orders/555",
   "https://api.tdameritrade.com/v1/accounts/ACCT123/watchlists/777"}
AnyContentTypes ==
  {"application/json", "application/json;charset=UTF-8", "text/html", "absent"}
AnyResponses ==
  [status : AnyStatuses, location : AnyLocations, ctype : AnyContentTypes,
   body : {"data"}]

\* the request methods of _make_request
Methods == {"get", "post", "put", "delete", "patch"}

\* a session that has just logged in: its token pair is fresh and saved
InitResponse ==
  /\ state = SavedState
  /\ config = DefaultConfig
  /\ file = [exists |-> TRUE, content |-> SavedState]
  /\ authstate = "Authenticated"
  /\ now = 0
  /\ issued = << RefreshLifetime * TicksPerSec >>
  /\ commits = {1}
  /\ last = Idle("login")
  /\ credentials_path = NoneStr
  /\ threads = NoThreads
  /\ item = NoItem

\* an endpoint wrapper: one _make_request, answered by any response
DispatchAny ==
  \E r \in AnyResponses, m \in Methods, od \in BOOLEAN :
     Commit("dispatch", [method |-> m, mode |-> NoneStr, order_details |-> od],
            MakeRequest(World([token |-> NoResponse, business |-> r]), config, m,
                        "business", NoneStr, NoData, od))

NextResponse == DispatchAny

SpecResponse == InitResponse /\ [][NextResponse]_vars

\* ------------------------------------------- _validate_arguments on any input
\* the values tried: allowed ones of several parameters and one that no
\* parameter allows
ValueSamples == {"EQUITY", "CRYPTO", "up", "preferences", "fundamental"}
\* the longest list of values tried
MaxArgs == 2

ArgumentSamples ==
  {StrArg(v) : v \in ValueSamples} \cup
  UNION {{ListArg(vs) : vs \in [1..n -> ValueSamples]} : n \in 0..MaxArgs}

\* the validated (endpoint, parameter) pairs
ParameterNames == {"projection", "markets", "market", "direction", "change", "fields"}
ValidatedParameters ==
  {ep \in (DOMAIN EndpointArguments) \X ParameterNames :
     ep[2] \in DOMAIN EndpointArguments[ep[1]]}

\* self._validate_arguments(endpoint, parameter_name, parameter_argument)
DoValidateArguments ==
  \E ep \in ValidatedParameters, a \in ArgumentSamples :
    LET r == ValidateArguments(ep[1], ep[2], a)
    IN  /\ last' = [op |-> "validate_arguments", endpoint |-> ep[1],
                    parameter_name |-> ep[2], parameter_argument |-> a,
                    exc |-> r.exc, message |-> r.message, ret |-> r.ret]
        /\ UNCHANGED <<state, config, file, authstate, now, issued, commits,
                       credentials_path, threads, item>>

NextValidate == DoValidateArguments

SpecValidate == Init /\ [][NextValidate]_vars

\* ---------------------------------------------------- validating wrappers
\* what the transport answers to a wrapper's requests
WrapperReplies ==
  [token : TokenResponses,
   business : {[status |-> 200, location |-> NoLocation, ctype |-> "application/json",
                body |-> "data"]}]

WrapperCall(endpoint, arguments) ==
  [method |-> "get", mode |-> NoneStr, order_details |-> FALSE,
   endpoint |-> endpoint, arguments |-> arguments]

\* a session that logged in and saved its tokens AccessLifetime seconds ago:
\* its access token has expired, its refresh token has not
InitWrappers ==
  /\ state = SavedState
  /\ config = DefaultConfig
  /\ file = [exists |-> TRUE, content |-> SavedState]
  /\ authstate = "Authenticated"
  /\ now = AccessLifetime * TicksPerSec
  /\ issued = << RefreshLifetime * TicksPerSec >>
  /\ commits = {1}
  /\ last = Idle("login")
  /\ credentials_path = NoneStr
  /\ threads = NoThreads
  /\ item = NoItem

DoSearchInstruments ==
  \E n \in WrapperReplies, a \in ArgumentSamples :
    Commit("search_instruments", WrapperCall("search_instruments", [projection |-> a]),
           SearchInstruments(World(n), config, [projection |-> a]))

DoGetMarketHours ==
  \E n \in WrapperReplies, a \in ArgumentSamples :
    Commit("get_market_hours", WrapperCall("get_market_hours", [markets |-> a]),
           GetMarketHours(World(n), config, [markets |-> a]))

DoGetMovers ==
  \E n \in WrapperReplies,
     a \in [market : {StrArg("$DJI"), StrArg("CRYPTO")},
            direction : {StrArg("up"), StrArg("CRYPTO")},
            change : {StrArg("value"), StrArg("CRYPTO")}] :
    Commit("get_movers", WrapperCall("get_movers", a), GetMovers(World(n), config, a))

DoGetUserPrincipals ==
  \E n \in WrapperReplies, a \in ArgumentSamples :
    Commit("get_user_principals", WrapperCall("get_user_principals", [fields |-> a]),
           GetUserPrincipals(World(n), config, [fields |-> a]))

NextWrappers ==
  \/ DoSearchInstruments
  \/ DoGetMarketHours
  \/ DoGetMovers
  \/ DoGetUserPrincipals

SpecWrappers == InitWrappers /\ [][NextWrappers]_vars

\* ------------------------------------------- two dispatches on one session
\* Two threads of the caller each run one endpoint wrapper on the same
\* session. A thread can be switched out between any two of these steps of
\* _make_request (the HTTP calls block): build the headers, validate the
\* token, send the refresh, commit its response, save the state, make the
\* business request.
ThreadIds == {1, 2}

\* a thread's position in _make_request and what it has done so far:
\* data is the form of its refresh request, overlapped says that it passed
\* the token validation while another thread was between its validation and
\* its commit (or the other way round)
IdleThread ==
  [pc |-> "idle", data |-> NoData, refreshed |-> FALSE, committed |-> FALSE,
   wrote |-> FALSE, overlapped |-> FALSE]

\* the thread is between its token validation and its token commit
Refreshing(t) == threads[t].pc \in {"refresh", "awaiting"}

InitRace ==
  /\ state = SavedState
  /\ config = DefaultConfig
  /\ file = [exists |-> TRUE, content |-> SavedState]
  /\ authstate = "Authenticated"
  /\ now = AccessLifetime * TicksPerSec
  /\ issued = << RefreshLifetime * TicksPerSec >>
  /\ commits = {1}
  /\ last = Idle("login")
  /\ credentials_path = NoneStr
  /\ threads = [t \in ThreadIds |-> IdleThread]
  /\ item = NoItem

\* url = ...; headers = self._headers(mode)
StartStep(t) ==
  /\ threads[t].pc = "idle"
  /\ threads' = [threads EXCEPT ![t].pc = "validate"]
  /\ UNCHANGED <<state, config, file, authstate, now, issued, commits, last,
                 credentials_path, item>>

\* a token validation that waits while another thread is refreshing
TokenValidationStep_Locked(t) ==
  /\ threads[t].pc = "validate"
  /\ \A u \in ThreadIds \ {t} : ~Refreshing(u) /\ threads[u].pc # "saving"
  /\ threads' =
       IF TokenSeconds(state, now, "access_token") < NSeconds /\ config.refresh_enabled
       THEN [threads EXCEPT ![t].pc = "refresh"]
       ELSE [threads EXCEPT ![t].pc = "request"]
  /\ UNCHANGED <<state, config, file, authstate, now, issued, commits, last,
                 credentials_path, item>>

\* _token_validation(): the test of _token_seconds and refresh_enabled
TokenValidationStep(t) ==
  /\ threads[t].pc = "validate"
  /\ threads' =
       IF TokenSeconds(state, now, "access_token") < NSeconds /\ config.refresh_enabled
       THEN [u \in ThreadIds |->
               IF u = t
               THEN [threads[u] EXCEPT !.pc = "refresh",
                       !.overlapped = \E v \in ThreadIds \ {t} : Refreshing(v)]
               ELSE [threads[u] EXCEPT !.overlapped = @ \/ Refreshing(u)]]
       ELSE [threads EXCEPT ![t].pc = "request"]
  /\ UNCHANGED <<state, config, file, authstate, now, issued, commits, last,
                 credentials_path, item>>

\* grab_refresh_token() up to the POST: the form holds the refresh token the
\* session has at that moment
RefreshSendStep(t) ==
  /\ threads[t].pc = "refresh"
  /\ threads' = [threads EXCEPT ![t].pc = "awaiting", ![t].refreshed = TRUE,
                   ![t].data = [grant_type |-> "refresh_token",
                                refresh_token |-> state.refresh_token, code |-> ""]]
  /\ UNCHANGED <<state, config, file, authstate, now, issued, commits, last,
                 credentials_path, item>>

\* the response of the refresh and _token_save(token_response)
RefreshCommitStep(t) ==
  /\ threads[t].pc = "awaiting"
  /\ \E n \in TokenReplies :
       LET w1 == TokenRequest(World(n), "post", "form", threads[t].data)
           w2 == IF w1.exc # "none" THEN w1 ELSE TokenSave(w1, config, w1.ret)
       IN  /\ w1.possible
           /\ state' = w2.state
           /\ file' = w2.file
           /\ issued' = w2.issued
           /\ commits' = w2.commits
           /\ threads' = [threads EXCEPT
                 ![t].pc = IF w2.exc # "none" THEN "raised" ELSE "saving",
                 ![t].committed = w2.commit = "True"]
  /\ UNCHANGED <<config, authstate, now, last, credentials_path, item>>

\* _state_manager('save') at the end of grab_refresh_token()
SaveStep(t) ==
  /\ threads[t].pc = "saving"
  /\ file' = StateManager(World(NoReplies), config, "save").file
  /\ threads' = [threads EXCEPT ![t].pc = "request", ![t].wrote = config.cache_state]
  /\ UNCHANGED <<state, config, authstate, now, issued, commits, last,
                 credentials_path, item>>

\* the business request and its response
RequestStep(t) ==
  /\ threads[t].pc = "request"
  /\ threads' = [threads EXCEPT ![t].pc = "done"]
  /\ UNCHANGED <<state, config, file, authstate, now, issued, commits, last,
                 credentials_path, item>>

NextRace ==
  \E t \in ThreadIds :
    \/ StartStep(t)
    \/ TokenValidationStep(t)
    \/ RefreshSendStep(t)
    \/ RefreshCommitStep(t)
    \/ SaveStep(t)
    \/ RequestStep(t)

SpecRace == InitRace /\ [][NextRace]_vars

\* ---------------------------------------------------- request headers
\* the modes a caller of _make_request can pass: none, the two the code
\* names, and one it does not name
RequestModes == {NoneStr, "json", "form", "xml"}

\* the replies of the server here: JSON documents, an error status
HeaderResponses ==
  { [status |-> 200, location |-> NoLocation, ctype |-> "application/json",
     body |-> "data"],
    [status |-> 201, location |-> NoLocation,
     ctype |-> "application/json;charset=UTF-8", body |-> "data"],
    [status |-> 400, location |-> NoLocation, ctype |-> "application/json",
     body |-> "data"] }

\* _make_request with each mode
DispatchMode ==
  \E r \in HeaderResponses, m \in Methods, mode \in RequestModes, od \in BOOLEAN :
     Commit("dispatch", [method |-> m, mode |-> mode, order_details |-> od],
            MakeRequest(World([token |-> NoResponse, business |-> r]), config, m,
                        "business", mode, NoData, od))

NextHeaders == DispatchMode

SpecHeaders == InitResponse /\ [][NextHeaders]_vars

\* ---------------------------------------------------- streaming session
\* Token timestamps 'YYYY-MM-DDTHH:MM:SS+HHMM' as the fields strptime reads;
\* sign is 1 for '+' and -1 for '-'.
TimestampDates ==
  { [year |-> 1970, month |-> 1, day |-> 1],
    [year |-> 2000, month |-> 3, day |-> 1],
    [year |-> 2020, month |-> 2, day |-> 29],
    [year |-> 2021, month |-> 12, day |-> 31] }

TimestampTimes ==
  { [hour |-> 0, minute |-> 0, second |-> 0],
    [hour |-> 12, minute |-> 34, second |-> 56],
    [hour |-> 23, minute |-> 59, second |-> 59] }

TimestampOffsets ==
  { [sign |-> 1, hours |-> 0, minutes |-> 0],
    [sign |-> -1, hours |-> 5, minutes |-> 0],
    [sign |-> 1, hours |-> 5, minutes |-> 30],
    [sign |-> 1, hours |-> 14, minutes |-> 0],
    [sign |-> -1, hours |-> 9, minutes |-> 30] }

TokenTimestamps ==
  [date : TimestampDates, time : TimestampTimes, offset : TimestampOffsets]

\* datetime's proleptic Gregorian ordinal of a date (1 for 0001-01-01)
IsLeap(y) == y % 4 = 0 /\ (y % 100 # 0 \/ y % 400 = 0)

DaysBeforeYear(y) == (y - 1) * 365 + (y - 1) \div 4 - (y - 1) \div 100 + (y - 1) \div 400

DaysBeforeMonth(y, m) ==
  << 0, 31, 59, 90, 120, 151, 181, 212, 243, 273, 304, 334 >>[m]
    + (IF m > 2 /\ IsLeap(y) THEN 1 ELSE 0)

Ymd2Ord(y, m, d) == DaysBeforeYear(y) + DaysBeforeMonth(y, m) + d

\* the utcoffset strptime's %z gives the parsed datetime, in seconds
UtcOffset(offset) == offset.sign * (offset.hours * 3600 + offset.minutes * 60)

\* datetime.timestamp() of an aware datetime: (self - 1970-01-01T00:00:00Z)
\* in seconds
Timestamp(ts) ==
  (Ymd2Ord(ts.date.year, ts.date.month, ts.date.day) - Ymd2Ord(1970, 1, 1)) * 86400
    + ts.time.hour * 3600 + ts.time.minute * 60 + ts.time.second
    - UtcOffset(ts.offset)

\* n * 1000 of Python's unbounded integers, kept as its thousands and units
Times1000(n) == [thousands |-> n, units |-> 0]

\* a conversion that reads the clock fields and drops the UTC offset
CreateTokenTimestamp_Naive(token_timestamp) ==
  Times1000(Timestamp([token_timestamp EXCEPT
                         !.offset = [sign |-> 1, hours |-> 0, minutes |-> 0]]))

\* _create_token_timestamp(token_timestamp)
CreateTokenTimestamp(token_timestamp) == Times1000(Timestamp(token_timestamp))

\* the parts of the user-principal document create_streaming_session reads
PrincipalDocuments ==
  [tokenTimestamp : TokenTimestamps, token : {"streamer-token-1", "streamer-token-2"},
   accountId : {"ACCT123"}]

StreamingFields ==
  ListArg(<<"streamerConnectionInfo", "streamerSubscriptionKeys", "preferences",
            "surrogateIds">>)

\* create_streaming_session(): doc is what response.json() gives for the
\* user-principal response; a None result cannot be subscripted.
CreateStreamingSession(w, cfg, doc) ==
  LET w1 == GetUserPrincipals(w, cfg, [fields |-> StreamingFields])
  IN  IF w1.exc # "none" THEN w1
      ELSE IF w1.ret.kind # "json" THEN Raise(w1, "TypeError")
      ELSE Return(w1, [kind |-> "streaming_session", body |-> w1.ret.body,
                       tok |-> NoToken, order_id |-> "",
                       credentials |->
                         [userid |-> doc.accountId,
                          token |-> doc.token,
                          authorized |-> "Y",
                          timestamp |-> CreateTokenTimestamp(doc.tokenTimestamp)]])

DoCreateStreamingSession ==
  \E r \in HeaderResponses, doc \in PrincipalDocuments :
    Commit("create_streaming_session",
           [method |-> "get", mode |-> NoneStr, order_details |-> FALSE,
            document |-> doc],
           CreateStreamingSession(World([token |-> NoResponse, business |-> r]),
                                  config, doc))

NextStream == DoCreateStreamingSession

SpecStream == InitResponse /\ [][NextStream]_vars

\* ---------------------------------------------------- watchlist items
\* td/watchlist_item.py.  A dict is the sequence of its entries in insertion
\* order; a value is None, a number, a string or a dict.
PyNone == [type |-> "None", text |-> "", members |-> << >>]
PyNum(t) == [type |-> "num", text |-> t, members |-> << >>]
PyStr(t) == [type |-> "str", text |-> t, members |-> << >>]
PyDict(d) == [type |-> "dict", text |-> "", members |-> d]

Entry(k, v) == [key |-> k, value |-> v]

\* key in d
Has(d, k) == \E i \in 1..Len(d) : d[i].key = k

\* d[key], for a key in d
Get(d, k) == d[CHOOSE i \in 1..Len(d) : d[i].key = k].value

\* del d[key]
Del(d, k) == SelectSeq(d, LAMBDA e : e.key # k)

\* d[key] = value: a key already there keeps its place
Set(d, k, v) ==
  IF Has(d, k)
  THEN [i \in 1..Len(d) |-> IF d[i].key = k THEN Entry(k, v) ELSE d[i]]
  ELSE Append(d, Entry(k, v))

\* d.update(items) for at most three items
DictUpdate(d, items) ==
  LET d1 == IF Len(items) >= 1 THEN Set(d, items[1].key, items[1].value) ELSE d
      d2 == IF Len(items) >= 2 THEN Set(d1, items[2].key, items[2].value) ELSE d1
  IN  IF Len(items) >= 3 THEN Set(d2, items[3].key, items[3].value) ELSE d2

\* self.argument_types and self.query_parameters of __init__
ArgumentTypes == {"EQUITY", "OPTION", "MUTUAL_FUND", "FIXED_INCOME", "INDEX"}

DefaultQueryParameters ==
  << Entry("quantity", PyNum("0")), Entry("averagePrice", PyNum("0.0")),
     Entry("commission", PyNum("0.0")), Entry("purchasedDate", PyNone),
     Entry("symbol", PyNone), Entry("assetType", PyNone) >>

\* validate_watchlist(keyword_args): True, or KeyError
ValidateWatchlist(keyword_args) ==
  IF \E i \in 1..Len(keyword_args) :
        /\ keyword_args[i].key = "assetType"
        /\ ~(keyword_args[i].value.type = "str"
             /\ keyword_args[i].value.text \in ArgumentTypes)
  THEN [exc |-> "KeyError", ret |-> "none"]
  ELSE [exc |-> "none", ret |-> "True"]

\* WatchlistItem(**kwargs): the new object, or the exception of __init__
NewWatchlistItem(kwargs) ==
  IF \E i \in 1..Len(kwargs) : ~Has(DefaultQueryParameters, kwargs[i].key)
  THEN [exc |-> "KeyError", item |-> NoItem]
  ELSE IF ValidateWatchlist(kwargs).exc # "none"
  THEN [exc |-> ValidateWatchlist(kwargs).exc, item |-> NoItem]
  ELSE [exc |-> "none",
        item |-> [exists |-> TRUE,
                  query_parameters |-> DictUpdate(DefaultQueryParameters, kwargs)]]

\* json.dumps of a scalar: null, the digits of a number, a quoted string
DumpScalar(v) ==
  CASE v.type = "None" -> [text |-> "null", quoted |-> FALSE]
    [] v.type = "num" -> [text |-> v.text, quoted |-> FALSE]
    [] v.type = "str" -> [text |-> v.text, quoted |-> TRUE]

\* json.dumps of a dict whose values are scalars or dicts of scalars: the
\* members of the JSON object in order
JsonDumps(d) ==
  [i \in 1..Len(d) |->
     IF d[i].value.type = "dict"
     THEN [key |-> d[i].key, text |-> "", quoted |-> FALSE,
           members |-> [j \in 1..Len(d[i].value.members) |->
                          [key |-> d[i].value.members[j].key,
                           value |-> DumpScalar(d[i].value.members[j].value)]]]
     ELSE [key |-> d[i].key, text |-> DumpScalar(d[i].value).text,
           quoted |-> DumpScalar(d[i].value).quoted, members |-> << >>]]

\* create_watchlist_json(): current_params is self.query_parameters itself
CreateWatchlistJson(it) ==
  LET current_params == it.query_parameters
  IN  IF ~Has(current_params, "symbol") \/ ~Has(current_params, "assetType")
      THEN [exc |-> "KeyError", ret |-> << >>, item |-> it]
      ELSE LET instrument_dict ==
                 << Entry("symbol", Get(current_params, "symbol")),
                    Entry("assetType", Get(current_params, "assetType")) >>
               nested == Set(Del(Del(current_params, "symbol"), "assetType"),
                             "instrument", PyDict(instrument_dict))
           IN  [exc |-> "none", ret |-> JsonDumps(nested),
                item |-> [it EXCEPT !.query_parameters = nested]]

\* keyword arguments a caller passes to WatchlistItem
WatchlistKwargs ==
  { << Entry("symbol", PyStr(s)), Entry("assetType", PyStr(a)) >> :
      s \in {"AAPL", "MSFT", "$SPX.X"}, a \in {"EQUITY", "INDEX", "OPTION", "CRYPTO"} }
  \cup
  { << Entry("quantity", PyNum(q)), Entry("symbol", PyStr(s)),
       Entry("assetType", PyStr("EQUITY")) >> :
      q \in {"10", "25"}, s \in {"AAPL", "MSFT", "$SPX.X"} }
  \cup
  { << Entry("symbol", PyStr("AAPL")), Entry("price", PyNum("1.5")) >> }

InitWatchlist ==
  /\ state = DefaultState
  /\ config = DefaultConfig
  /\ file = NoFile
  /\ authstate = "False"
  /\ now = 0
  /\ issued = << >>
  /\ commits = {}
  /\ last = [op |-> "init"]
  /\ credentials_path = NoneStr
  /\ threads = NoThreads
  /\ item = NoItem

\* item = WatchlistItem(**kwargs); a failed constructor leaves the caller
\* with the item it had
DoNewWatchlistItem ==
  \E kwargs \in WatchlistKwargs :
    LET r == NewWatchlistItem(kwargs)
    IN  /\ item' = IF r.exc = "none" THEN r.item ELSE item
        /\ last' = [op |-> "WatchlistItem", kwargs |-> kwargs, exc |-> r.exc,
                    ret |-> << >>, calls |-> 0]
        /\ UNCHANGED <<state, config, file, authstate, now, issued, commits,
                       credentials_path, threads>>

\* item.create_watchlist_json(); calls counts the calls made on this item
DoCreateWatchlistJson ==
  /\ item.exists
  /\ LET r == CreateWatchlistJson(item)
     IN  /\ item' = r.item
         /\ last' = [op |-> "create_watchlist_json", kwargs |-> << >>,
                     exc |-> r.exc, ret |-> r.ret,
                     calls |-> IF last.op = "create_watchlist_json"
                               THEN 2 ELSE 1]
         /\ UNCHANGED <<state, config, file, authstate, now, issued, commits,
                        credentials_path, threads>>

NextWatchlist == DoNewWatchlistItem \/ DoCreateWatchlistJson

SpecWatchlist == InitWatchlist /\ [][NextWatchlist]_vars

\* ---------------------------------------------------- saved orders
Accounts == {"ACCT123", "ACCT456"}

\* 'accounts/{}/savedorders'.format(account)
SavedOrdersEndpoint(account) ==
  CASE account = "ACCT123" -> "accounts/ACCT123/savedorders"
    [] account = "ACCT456" -> "accounts/ACCT456/savedorders"

\* 'accounts/{}/savedorders/{}'.format(account, saved_order_id), for the one
\* saved order id used here
SavedOrderEndpoint(account) ==
  CASE account = "ACCT123" -> "accounts/ACCT123/savedorders/555"
    [] account = "ACCT456" -> "accounts/ACCT456/savedorders/555"

\* what a caller passes as saved_order: an Order object, which holds the
\* payload its _saved_order_to_json() gives, or the payload as a dictionary
SavedOrders ==
  [is_order : BOOLEAN, payload : {"BUY 1 AAPL", "SELL 2 MSFT"}]

\* the data argument of _make_request when it is an order payload
OrderData(order) ==
  [grant_type |-> "none", refresh_token |-> NoToken, code |-> "", payload |-> order]

\* a local variable of a function before its first assignment
Unbound == "unbound local"

\* create_saved_order(account, saved_order): the local 'order' is read, in
\* either branch, before anything is assigned to it
CreateSavedOrder(w, cfg, account, saved_order) ==
  LET order0 == Unbound
      order == IF saved_order.is_order
               THEN order0  \* order._saved_order_to_json()
               ELSE order0  \* order = order
      endpoint == SavedOrdersEndpoint(account)
  IN  IF order0 = Unbound
      THEN Raise(w, "UnboundLocalError")
      ELSE MakeRequest(w, cfg, "post", endpoint, "json", OrderData(order), TRUE)

\* cancel_saved_order(account, saved_order_id)
CancelSavedOrder(w, cfg, account) ==
  MakeRequest(w, cfg, "delete", SavedOrderEndpoint(account), NoneStr, NoData, TRUE)

DoCreateSavedOrder ==
  \E r \in AnyResponses, account \in Accounts, saved_order \in SavedOrders :
    Commit("create_saved_order",
           [method |-> "post", mode |-> "json", order_details |-> TRUE,
            account |-> account, saved_order |-> saved_order],
           CreateSavedOrder(World([token |-> NoResponse, business |-> r]), config,
                            account, saved_order))

DoCancelSavedOrder ==
  \E r \in AnyResponses, account \in Accounts :
    Commit("cancel_saved_order",
           [method |-> "delete", mode |-> NoneStr, order_details |-> TRUE,
            account |-> account, saved_order |-> [is_order |-> FALSE, payload |-> ""]],
           CancelSavedOrder(World([token |-> NoResponse, business |-> r]), config,
                            account))

NextOrders == DoCreateSavedOrder \/ DoCancelSavedOrder

SpecOrders == InitResponse /\ [][NextOrders]_vars

\* ------------------------------------------------------------------ claims
\* the business requests the last call sent
BusinessRequests == {i \in 1..Len(last.sent) : last.sent[i].endpoint # TokenEndpoint}

\* the token fields of a session state are at their empty defaults
Cleared(st) ==
  /\ st.access_token = NoToken
  /\ st.refresh_token = NoToken
  /\ st.access_token_expires_at = 0
  /\ st.refresh_token_expires_at = 0
  /\ st.loggedin = FALSE

\* C1: with refresh enabled, every business request of a dispatch carries a
\* token that has at least NSeconds seconds left when the request is sent;
\* stated for the dispatches whose pre-call refresh, if there was one,
\* committed a token.
C1_FreshTokenAtSend ==
  (last.op = "dispatch" /\ config.refresh_enabled /\ last.commit # "False")
     => \A i \in BusinessRequests : last.sent[i].auth_seconds >= NSeconds

\* C2: the Authorization header of every business request carries the access
\* token that SessionState holds when the HTTP call is made, so after a
\* pre-call refresh it carries the new token.
C2_BearerIsHeldToken ==
  last.op = "dispatch"
     => \A i \in BusinessRequests :
           /\ last.sent[i].headers.has_auth
           /\ last.sent[i].headers.auth = last.sent[i].held

\* C3: loggedin is true exactly when an access token is present that a
\* successful token commit stored.
C3_LoggedInIffCommitted ==
  state.loggedin <=> (state.access_token # NoToken /\ state.access_token \in commits)

C3_Witness ==
  /\ last.op = "dispatch"
  /\ last.commit = "True"
  /\ state.loggedin
  /\ state.access_token \in commits

\* C4: a token commit that reports false (the response lacks an access token)
\* leaves the token fields of SessionState at their empty defaults.
C4_FailedCommitClears ==
  last.commit = "False" => Cleared(state)

\* C5: after logout() SessionState equals its empty defaults.
C5_LogoutClears ==
  last.op = "logout" => state = DefaultState

\* C6: grab_refresh_token() and grab_access_token() raise nothing, and return
\* true exactly when a token was committed.
C6_GrabReportsCommit ==
  last.op \in {"grab_refresh_token", "grab_access_token"}
     => /\ last.exc = "none"
        /\ (last.ret.kind = "True") <=> (last.commit = "True")

\* C7: login() reports success and ends Authenticated only if silent SSO
\* succeeded or the code exchange committed a token; a code exchange without
\* an access token leaves the session cleared and reports no success.
C7_LoginOnlyOnCommit ==
  last.op = "login"
     => /\ (last.ret.kind = "True" /\ authstate = "Authenticated")
             => (last.sso.ret = "True" \/ last.commit = "True")
        /\ (last.sso.ret # "True" /\ last.commit = "False")
             => (Cleared(state) /\ last.ret.kind # "True")

\* C8: when silent_sso returns true, SessionState holds a usable access token.
C8_SsoTrueMeansUsable ==
  (last.sso.called /\ last.sso.ret = "True")
     => TokenSeconds(state, now, "access_token") > 0

\* C9: when the access token has strictly positive remaining seconds,
\* silent_sso returns true, sends no request and leaves SessionState unchanged.
C9_SsoFastPath ==
  [][(last'.sso.called /\ TokenSeconds(state, now, "access_token") > 0)
       => /\ last'.sso.ret = "True"
          /\ last'.sso.requests = 0
          /\ Len(last'.sent) = 0
          /\ state' = state]_vars

C9_Witness ==
  /\ last.op = "silent_sso"
  /\ last.sso.ret = "True"
  /\ last.sso.requests = 0
  /\ TokenSeconds(state, now, "access_token") > 0

\* C10: with no usable access token and a refresh token that is absent or has
\* no whole second left, silent_sso returns false without a request; it sends
\* a refresh request only when the access token is unusable and the refresh
\* token is present and unexpired.
C10_SsoRefreshOnlyWhenPossible ==
  [][last'.sso.called
       => /\ (/\ TokenSeconds(state, now, "access_token") = 0
              /\ TokenSeconds(state, now, "refresh_token") <= 0)
             => (last'.sso.ret = "False" /\ last'.sso.requests = 0)
          /\ last'.sso.requests > 0
             => /\ TokenSeconds(state, now, "access_token") = 0
                /\ state.refresh_token # NoToken
                /\ now < state.refresh_token_expires_at
                /\ last'.sent[1].data.grant_type = "refresh_token"]_vars

C10_Witness ==
  /\ last.op = "silent_sso"
  /\ last.sso.ret = "False"
  /\ last.sso.requests = 0
  /\ state.refresh_token # NoToken
  /\ now >= state.refresh_token_expires_at

\* the requests of the last call that went to the token endpoint
TokenRequests == {i \in 1..Len(last.sent) : last.sent[i].endpoint = TokenEndpoint}

\* C11: a dispatch to a business endpoint sends a refresh-token request, and
\* sends it before anything else, exactly when the access token has fewer than
\* NSeconds seconds left at the call and refresh is enabled; otherwise it sends
\* nothing to the token endpoint.
C11_RefreshExactlyWhenStale ==
  [][last'.op = "dispatch" =>
       LET stale == TokenSeconds(state, now, "access_token") < NSeconds
           sent == last'.sent
           tokens == {i \in 1..Len(sent) : sent[i].endpoint = TokenEndpoint}
       IN  IF stale /\ config.refresh_enabled
           THEN /\ tokens = {1}
                /\ sent[1].data.grant_type = "refresh_token"
                /\ sent[1].method = "post"
           ELSE tokens = {}]_vars

C11_Witness ==
  /\ last.op = "dispatch"
  /\ Len(last.sent) = 2
  /\ last.sent[1].endpoint = TokenEndpoint
  /\ last.sent[1].data.grant_type = "refresh_token"
  /\ last.sent[2].endpoint # TokenEndpoint
  /\ last.commit = "True"

\* C12: a request to the token endpoint carries no Authorization header, a call
\* sends at most one request to the token endpoint, and every dispatch sends
\* exactly one request, with the given method, to its target endpoint whatever
\* the statuses answered.
C12_OneRequestPerDispatch ==
  /\ \A i \in TokenRequests : ~last.sent[i].headers.has_auth
  /\ Cardinality(TokenRequests) <= 1
  /\ last.op = "dispatch" =>
       /\ Cardinality(BusinessRequests) = 1
       /\ \A i \in BusinessRequests : last.sent[i].method = last.call.method

\* the token fields of a session state
TokenFields ==
  {"access_token", "refresh_token", "access_token_expires_at",
   "refresh_token_expires_at", "loggedin"}

\* C13: when a call has committed a token response (the token pair the server
\* issued last, lifetimes AccessLifetime and RefreshLifetime, taken at now),
\* the session state holds that pair, the expiries now + lifetime and
\* loggedin, and with persistence enabled the state file holds the same values.
C13_CommitStoresAndPersists ==
  last.commit = "True" =>
    /\ state.access_token = Len(issued)
    /\ state.refresh_token = Len(issued)
    /\ state.access_token_expires_at = now + AccessLifetime * TicksPerSec
    /\ state.refresh_token_expires_at = now + RefreshLifetime * TicksPerSec
    /\ state.loggedin
    /\ config.cache_state =>
         /\ file.exists
         /\ \A k \in TokenFields : file.content[k] = state[k]

C13_Witness ==
  /\ last.op = "grab_refresh_token"
  /\ last.commit = "True"
  /\ config.cache_state
  /\ file.exists
  /\ file.content.access_token = Len(issued)
  /\ Len(issued) = 2

C15_FileMirrorsState ==
  ( /\ last.op \in {"login", "grab_access_token", "grab_refresh_token", "logout"}
    /\ last.exc = "none"
    /\ config.cache_state ) =>
      \/ file.exists /\ file.content = state
      \/ ~file.exists /\ state = DefaultState

\* C16: the state file is read into the session state only at construction:
\* no call after construction (logout, a failed token commit, a dispatch, ...)
\* reads it back.
C16_ReadOnlyAtConstruction ==
  /\ last.op = "init" => last.loads <= 1
  /\ last.op # "init" => last.loads = 0

\* C17: a session constructed with persistence disabled (the constructor takes
\* no configuration, so the caller switches cache_state off on the new session)
\* has deleted an existing state file instead of reading it: it holds the
\* default state and there is no state file.
C17_NoCacheStartsEmpty ==
  [][(last.op = "init" /\ last'.op = "configure" /\ ~config'.cache_state) =>
       /\ state' = DefaultState
       /\ ~file'.exists]_vars

\* C18: save leaves the session state unchanged; with persistence disabled it
\* leaves the state file as it was (absent or with its old content), with
\* persistence enabled the file holds every field of the session state.
C18_SaveFrame ==
  [][last'.op = "save" =>
       /\ state' = state
       /\ last'.exc = "none"
       /\ IF config.cache_state
          THEN /\ file'.exists
               /\ DOMAIN file'.content = DOMAIN state
               /\ \A k \in DOMAIN state : file'.content[k] = state[k]
          ELSE file' = file]_vars

C18_Witness ==
  /\ last.op = "save"
  /\ ~config.cache_state
  /\ state.loggedin
  /\ file.exists => file.content # state

\* C19: a session constructed with persistence enabled (the constructor's
\* setting) takes every key of an existing state file from the file and every
\* other key from the defaults; without a file it holds the default state;
\* construction raises nothing.
C19_LoadMergesFile ==
  last.op = "init" =>
    /\ last.exc = "none"
    /\ DOMAIN state = DOMAIN DefaultState
    /\ \A k \in DOMAIN DefaultState :
         state[k] = IF file.exists /\ k \in DOMAIN file.content
                    THEN file.content[k] ELSE DefaultState[k]

C19_Witness ==
  /\ last.op = "init"
  /\ file.exists
  /\ "access_token" \in DOMAIN file.content
  /\ "refresh_token" \notin DOMAIN file.content
  /\ state.access_token = SavedState.access_token
  /\ state.refresh_token = NoToken

\* C20: constructing a session with a supplied credentials path at which
\* there is no file fails.
C20_MissingPathFails ==
  (last.op = "init" /\ credentials_path # NoneStr /\ ~file.exists) =>
    last.exc # "none"

\* C20, as the code has it: constructing a session with a supplied credentials
\* path at which there is no file raises nothing and yields the default
\* session state.
C20_MissingPathFallsBack ==
  (last.op = "init" /\ credentials_path # NoneStr /\ ~file.exists) =>
    /\ last.exc = "none"
    /\ state = DefaultState

C20_Witness ==
  /\ last.op = "init"
  /\ last.loads = 0
  /\ credentials_path = "td_credentials.json"
  /\ ~file.exists
  /\ state = DefaultState

\* the token of a kind and its expiry in the session state
TokenOf(kind) ==
  IF kind = "access_token" THEN state.access_token ELSE state.refresh_token
ExpiryOf(kind) ==
  IF kind = "access_token" THEN state.access_token_expires_at
  ELSE state.refresh_token_expires_at

\* C21: token_seconds(kind) is never negative; it is 0 when the token of that
\* kind is absent or the clock has reached its expiry, and otherwise the whole
\* number of seconds from the clock (as the call read it) to the expiry.
C21_TokenSecondsValue ==
  last.op = "token_seconds" =>
    LET exp == ExpiryOf(last.token_type)
        t == last.read_at
    IN  /\ last.ret >= 0
        /\ (TokenOf(last.token_type) = NoToken \/ now >= exp) => last.ret = 0
        /\ (TokenOf(last.token_type) # NoToken /\ now < exp) =>
             IF t >= exp THEN last.ret = 0
             ELSE /\ last.ret * TicksPerSec <= exp - t
                  /\ exp - t < (last.ret + 1) * TicksPerSec

C21_Witness ==
  /\ last.op = "token_seconds"
  /\ last.token_type = "refresh_token"
  /\ state.refresh_token # NoToken
  /\ now < state.refresh_token_expires_at
  /\ last.read_at = state.refresh_token_expires_at + 1
  /\ last.ret = 0

\* C22: a dispatch answered with status 400, 401, 403, 415 or 500 returns
\* None, raises nothing and has sent its request once, whatever the method and
\* the headers of the response.
C22_ErrorStatusReturnsNone ==
  (last.op = "dispatch" /\ last.response.status \in {400, 401, 403, 415, 500}) =>
    /\ last.exc = "none"
    /\ last.ret = RetNone
    /\ Cardinality(BusinessRequests) = 1

\* the dispatch that has just returned failed because its pre-call refresh
\* was not answered with a token
RefreshFailed ==
  /\ last.op = "dispatch"
  /\ TokenRequests # {}
  /\ last.commit # "True"

\* C23: a pre-call refresh that is answered with an error status or without
\* an access token raises nothing to the caller of the dispatch: the dispatch
\* does not end, with an exception, before its business request.
C23_RefreshFailureNotRaised ==
  (RefreshFailed /\ BusinessRequests = {}) => last.exc = "none"

\* C24: a dispatch with order_details answered 200 or 201 raises nothing and
\* returns the structured result; its order_id is the part of the Location
\* header after 'orders/', and '' when there is no Location header.
C24_OrderIdFromLocation ==
  (last.op = "dispatch" /\ last.call.order_details
     /\ last.response.status \in {200, 201}) =>
    /\ last.exc = "none"
    /\ last.ret.kind = "order"
    /\ last.response.location = NoLocation => last.ret.order_id = ""
    /\ last.response.location
          = "https://api.tdameritrade.com/v1/accounts/ACCT123/orders/555"
         => last.ret.order_id = "555"

\* C25: a dispatch without order_details answered 200 or 201 (here: without a
\* Location header) raises nothing; it returns the parsed JSON body when the
\* Content-Type is a JSON media type and None for any other or no
\* Content-Type.
C25_JsonOrNothing ==
  (last.op = "dispatch" /\ ~last.call.order_details
     /\ last.response.status \in {200, 201}
     /\ last.response.location = NoLocation) =>
    /\ last.exc = "none"
    /\ IF last.response.ctype \in {"application/json", "application/json;charset=UTF-8"}
       THEN last.ret.kind = "json" /\ last.ret.body = last.response.body
       ELSE last.ret = RetNone

\* the allow-list of the validated parameter and the values supplied to it
AllowList == Elements(EndpointArguments[last.endpoint][last.parameter_name])
Supplied ==
  IF last.parameter_argument.isstr THEN {last.parameter_argument.str}
  ELSE Elements(last.parameter_argument.items)

\* C26: validation succeeds exactly when every supplied value is in the
\* allow-list of (endpoint, parameter_name); otherwise it fails with an error
\* whose message names an offending value and the whole allow-list.
C26_ValidateNamesOffender ==
  last.op = "validate_arguments" =>
    /\ last.exc = "none" <=> Supplied \subseteq AllowList
    /\ last.exc # "none" =>
         /\ last.exc = "ValueError"
         /\ AllowList \subseteq Elements(last.message)
         /\ \E v \in Supplied \ AllowList : v \in Elements(last.message)

\* C26, as the code has it: validation succeeds (returns True) exactly when
\* every supplied value is in the allow-list; otherwise it raises ValueError
\* whose message lists the allow-list, in table order, and no supplied value.
C26_ValidateListsAllowed ==
  last.op = "validate_arguments" =>
    /\ last.exc = "none" <=> Supplied \subseteq AllowList
    /\ last.exc = "none" => last.ret = "True"
    /\ last.exc # "none" =>
         /\ last.exc = "ValueError"
         /\ last.message = EndpointArguments[last.endpoint][last.parameter_name]

C26_Witness ==
  /\ last.op = "validate_arguments"
  /\ last.endpoint = "get_market_hours"
  /\ last.parameter_argument = ListArg(<<"EQUITY", "CRYPTO">>)
  /\ last.exc = "ValueError"
  /\ last.message = <<"EQUITY", "OPTION", "FUTURE", "BOND", "FOREX">>

\* the wrapper call has a parameter with a value outside its allow-list
OutsideAllowList(call) ==
  \E p \in DOMAIN call.arguments :
    LET supplied == IF call.arguments[p].isstr THEN {call.arguments[p].str}
                    ELSE Elements(call.arguments[p].items)
    IN  ~(supplied \subseteq Elements(EndpointArguments[call.endpoint][p]))

WrapperOps ==
  {"search_instruments", "get_market_hours", "get_movers", "get_user_principals"}

\* C27: a validating wrapper called with a value outside the allow-list raises
\* the validation error before any network call: it sends no request, neither
\* to its endpoint nor to the token endpoint, and leaves the session state and
\* the state file unchanged.
C27_ValidationBeforeNetwork ==
  [][(last'.op \in WrapperOps /\ OutsideAllowList(last'.call)) =>
       /\ last'.exc = "ValueError"
       /\ last'.sent = << >>
       /\ state' = state
       /\ file' = file]_vars

C27_Witness ==
  /\ last.op = "get_movers"
  /\ last.call.arguments.market = StrArg("$DJI")
  /\ last.call.arguments.direction = StrArg("up")
  /\ last.call.arguments.change = StrArg("CRYPTO")
  /\ last.exc = "ValueError"
  /\ last.sent = << >>
  /\ TokenSeconds(state, now, "access_token") < NSeconds
  /\ config.refresh_enabled

\* C28: nothing makes the token validation of one thread wait for the refresh
\* of another: a thread at its token validation can always take it, also
\* while another thread is between its validation and its commit, so two
\* dispatches on a stale token both send a refresh request and both write the
\* state file.
C28_NoMutualExclusion ==
  \A t \in ThreadIds :
    (DOMAIN threads = ThreadIds /\ threads[t].pc = "validate") =>
      ENABLED TokenValidationStep(t)

C28_Witness ==
  /\ DOMAIN threads = ThreadIds
  /\ \A t \in ThreadIds :
       /\ threads[t].pc = "done"
       /\ threads[t].overlapped
       /\ threads[t].refreshed
       /\ threads[t].committed
       /\ threads[t].wrote
  /\ Len(issued) = 3

\* C29: after a call in which a token commit failed (the response of the code
\* exchange or of the refresh had no access token) the session is
\* unauthenticated, and a call that follows reuses none of the tokens held
\* before: it sends no bearer token and no refresh token.
C29_FailureForcesFreshLogin ==
  [][last.commit = "False" =>
       /\ authstate # "Authenticated"
       /\ ~state.loggedin
       /\ \A i \in 1..Len(last'.sent) :
            /\ ~(last'.sent[i].headers.has_auth /\ last'.sent[i].headers.auth # NoToken)
            /\ last'.sent[i].data.refresh_token = NoToken]_vars

\* C30: login() with persistence enabled whose silent SSO succeeds goes to
\* Authenticated and returns True without a code exchange, and leaves
\* authorization_url and redirect_code as they were.
C30_SsoLoginFrame ==
  [][(last'.op = "login" /\ config.cache_state /\ last'.sso.ret = "True") =>
       /\ authstate' = "Authenticated"
       /\ last'.ret.kind = "True"
       /\ \A i \in 1..Len(last'.sent) :
            last'.sent[i].data.grant_type # "authorization_code"
       /\ state'.authorization_url = state.authorization_url
       /\ state'.redirect_code = state.redirect_code]_vars

C32_HeadersByMode ==
  last.op = "dispatch" =>
    \A i \in BusinessRequests :
       /\ last.sent[i].headers.has_auth
       /\ last.sent[i].headers.content_type =
            CASE last.call.mode = "json" -> "application/json"
              [] last.call.mode = "form" -> "application/x-www-form-urlencoded"
              [] OTHER -> "absent"

C32_Witness ==
  /\ last.op = "dispatch"
  /\ last.call.mode = "form"
  /\ BusinessRequests # {}
  /\ \A i \in BusinessRequests :
        last.sent[i].headers.content_type = "application/x-www-form-urlencoded"

\* the day number of each sample date counted from 1970-01-01, from the
\* calendar
KnownEpochDay(date) ==
  CASE date = [year |-> 1970, month |-> 1, day |-> 1] -> 0
    [] date = [year |-> 2000, month |-> 3, day |-> 1] -> 11017
    [] date = [year |-> 2020, month |-> 2, day |-> 29] -> 18321
    [] date = [year |-> 2021, month |-> 12, day |-> 31] -> 18992

\* the whole epoch seconds a timestamp string denotes: its clock reading on
\* its date, moved back by its UTC offset
EpochSeconds(ts) ==
  KnownEpochDay(ts.date) * 86400
    + (ts.time.hour * 60 + ts.time.minute) * 60 + ts.time.second
    - ts.offset.sign * (ts.offset.hours * 60 + ts.offset.minutes) * 60

\* C33: the credential record of a streaming session has 'authorized' equal
\* to 'Y' and 'timestamp' equal to 1000 times the whole epoch seconds of the
\* response's token timestamp with its UTC offset applied.
C33_StreamingCredentials ==
  (last.op = "create_streaming_session" /\ last.exc = "none") =>
    /\ last.ret.credentials.authorized = "Y"
    /\ last.ret.credentials.timestamp.thousands =
         EpochSeconds(last.call.document.tokenTimestamp)
    /\ last.ret.credentials.timestamp.units = 0

C33_Witness ==
  /\ last.op = "create_streaming_session"
  /\ last.exc = "none"
  /\ last.call.document.tokenTimestamp.offset.sign = -1
  /\ last.call.document.tokenTimestamp.date.year = 2020
  /\ last.ret.credentials.timestamp.thousands = 1583054999

\* C34: a dispatch made while the session holds no refresh token, or an
\* expired one (token_seconds('refresh_token') = 0), sends nothing to the
\* token endpoint.
C34_NoRefreshWithoutRefreshToken ==
  [][(last'.op = "dispatch" /\ TokenSeconds(state, now, "refresh_token") = 0) =>
       \A i \in 1..Len(last'.sent) : last'.sent[i].endpoint # TokenEndpoint]_vars

\* C35: the access token and the refresh token of the session state always
\* come from the same source: the same token response (tokens are numbered by
\* the response that issued them), the same loaded state, or both are absent.
\* Holding in every state, it also says that no step replaces one of them
\* without the other.
C35_TokenPairSameSource == state.access_token = state.refresh_token

C35_Witness ==
  /\ last.commit = "True"
  /\ state.access_token = 2
  /\ state.refresh_token = 2
  /\ file.exists
  /\ file.content.refresh_token = 2

\* C36: the session state after a business dispatch is the session state
\* right after its pre-call validation, whatever the response status; and for
\* a status outside {200, 201, 400, 401, 403, 415, 500} the dispatch returns
\* nothing and raises nothing.
C36_ClassificationFrame ==
  [][(last'.op = "dispatch" /\ last'.response # NoResponse) =>
       /\ state' = TokenValidation(World([token |-> NoResponse,
                                          business |-> last'.response]),
                                   config, NSeconds).state
       /\ last'.response.status \notin {200, 201, 400, 401, 403, 415, 500} =>
            (last'.exc = "none" /\ last'.ret = RetNone)]_vars

\* C37: a dispatch that did not ask for order metadata ends as the same
\* dispatch would on the same response without its Location header: the
\* header changes neither the result nor whether the dispatch raises.
C37_LocationIndependence ==
  (last.op = "dispatch" /\ ~last.call.order_details /\ last.response # NoResponse) =>
    LET bare == MakeRequest(World([token |-> NoResponse,
                                   business |-> [last.response EXCEPT
                                                   !.location = NoLocation]]),
                            config, last.call.method, "business", last.call.mode,
                            NoData, FALSE)
    IN  /\ last.exc = bare.exc
        /\ last.ret = bare.ret

\* the JSON object has 'symbol' and 'assetType' under 'instrument' and not at
\* the top level
NestedUnderInstrument(json) ==
  /\ \E i \in 1..Len(json) :
        /\ json[i].key = "instrument"
        /\ \E j \in 1..Len(json[i].members) : json[i].members[j].key = "symbol"
        /\ \E j \in 1..Len(json[i].members) : json[i].members[j].key = "assetType"
  /\ \A i \in 1..Len(json) : json[i].key \notin {"symbol", "assetType"}

\* C39: every call of create_watchlist_json() on a WatchlistItem returns,
\* without raising, a JSON string with 'symbol' and 'assetType' nested under
\* 'instrument', and a call that follows another call on the same item
\* returns the same string.
C39_RepeatableJson ==
  [][last'.op = "create_watchlist_json" =>
       /\ last'.exc = "none"
       /\ NestedUnderInstrument(last'.ret)
       /\ last.op = "create_watchlist_json" => last'.ret = last.ret]_vars

\* C38: create_saved_order(account, saved_order) sends exactly one business
\* request, a POST to 'accounts/{account}/savedorders' whose data is the
\* order payload, for an Order object and for a raw dictionary alike.
C38_SavedOrderPosted ==
  last.op = "create_saved_order" =>
    /\ Cardinality(BusinessRequests) = 1
    /\ \A i \in BusinessRequests :
         /\ last.sent[i].method = "post"
         /\ last.sent[i].endpoint = SavedOrdersEndpoint(last.call.account)
         /\ last.sent[i].data = OrderData(last.call.saved_order.payload)

====
